---- MODULE Spec2Model ----
(***************************************************************************)
(* Model of lineatur (src/lineatur.go): the command line validation of     *)
(* main, the number list parser parseMultiUint64, the proportion resolver  *)
(* proportionsToLengths, the line group renderer drawLineatur and the page *)
(* tiler drawAllLineatur.                                                  *)
(*                                                                         *)
(* A string is a sequence of one-character strings.                        *)
(*                                                                         *)
(* A float64 is a record [n, d, tn, td, deg, r] that stands for            *)
(*     n/d + (tn/td) * t      with t = |math.Tan(math.Pi * deg / 180.0)|,  *)
(* the float64 the tangent of the run returns; n/d and tn/td are in lowest *)
(* terms, and tn = 0 (with td = 1, deg = 0) when the tangent does not      *)
(* enter the value (see Lin for the tangents above 10^15).  r tells        *)
(* whether the float64 is that value only up to rounding:                  *)
(* r is FALSE when the operands of the operation were exact and            *)
(* the result is a binary fraction (the numbers of the model are far below *)
(* 2^53), or the tangent itself; r is TRUE when a rounding step may have   *)
(* moved the float64 away from the value.  d = 0 stands for the IEEE       *)
(* specials: n = 0 is NaN, n = 1 is +Inf, n = -1 is -Inf; d = 0 with       *)
(* r TRUE is a special that only the rounding decides (a number that is    *)
(* zero up to rounding, divided by zero): NaN, +Inf or -Inf.               *)
(*                                                                         *)
(* The code compares values without a tangent only, and divides by exact   *)
(* numbers only (a sum of unsigned integers, an unsigned integer less 1).  *)
(* TanTable bounds t to 1/10000 for the comparisons of the properties.     *)
(*                                                                         *)
(* The stroke width (-lw) and the output file name (-o) do not influence   *)
(* the geometry and are left out.                                          *)
(***************************************************************************)
EXTENDS Integers, Sequences, FiniteSets, TLC

VARIABLES flags, pc, exit, proportions, slants, margins, doc,
          lineDists, width, x, y, group, origins

vars == <<flags, pc, exit, proportions, slants, margins, doc,
          lineDists, width, x, y, group, origins>>

\* Length of the recorded history of group origins.  The tiling loop itself
\* is not limited by it: only the record stops growing.
MaxGroups == 70

(***************************************************************************)
(* float64 arithmetic                                                      *)
(***************************************************************************)
Abs(i) == IF i < 0 THEN -i ELSE i

Sign(i) == IF i < 0 THEN -1 ELSE IF i = 0 THEN 0 ELSE 1

RECURSIVE GCD(_, _)
GCD(a, b) == IF b = 0 THEN a ELSE GCD(b, a % b)

\* the rational n/d in lowest terms
Norm(n, d) ==
    IF d = 0 THEN [n |-> Sign(n), d |-> 0]
    ELSE IF n = 0 THEN [n |-> 0, d |-> 1]
    ELSE LET g == GCD(Abs(n), Abs(d))
         IN  [n |-> (Sign(d) * n) \div g, d |-> Abs(d) \div g]

QAdd(p, q) == Norm(p.n * q.d + q.n * p.d, p.d * q.d)

QNeg(p) == [n |-> -p.n, d |-> p.d]

QMul(p, q) == Norm(p.n * q.n, p.d * q.d)

QDiv(p, q) == Norm(p.n * q.d, p.d * q.n)

\* d is a power of two: n/d is a float64
RECURSIVE IsDyadic(_)
IsDyadic(d) == d = 1 \/ (d > 1 /\ d % 2 = 0 /\ IsDyadic(d \div 2))

\* the angle of the first quadrant with the same |tan|
TanK(deg) == LET m == deg % 180 IN IF m <= 90 THEN m ELSE 180 - m

\* the float64 result of an operation whose real result is p + q * t, for
\* the tangent t of deg; rounded tells whether an operand was rounded.
\* At the odd multiples of 90 degrees math.Tan returns a number above 10^15:
\* when such a tangent cancels (q = 0), what is left is the rounding error
\* of those numbers, and the result keeps deg to tell that p is not known
Lin(p, q, deg, rounded) ==
    IF q.n = 0
    THEN [n |-> p.n, d |-> p.d, tn |-> 0, td |-> 1,
          deg |-> IF TanK(deg) = 90 THEN deg ELSE 0,
          r |-> TanK(deg) = 90 \/ rounded \/ ~IsDyadic(p.d)]
    ELSE [n |-> p.n, d |-> p.d, tn |-> q.n, td |-> q.d, deg |-> deg,
          r |-> TRUE]

\* float64(u) of an unsigned integer, and the float64 constants
R(i) == [n |-> i, d |-> 1, tn |-> 0, td |-> 1, deg |-> 0, r |-> FALSE]

NaN == [n |-> 0, d |-> 0, tn |-> 0, td |-> 1, deg |-> 0, r |-> FALSE]

Inf(sign) == [n |-> sign, d |-> 0, tn |-> 0, td |-> 1, deg |-> 0, r |-> FALSE]

\* the special that only the rounding decides: NaN, +Inf or -Inf
Undecided == [n |-> 0, d |-> 0, tn |-> 0, td |-> 1, deg |-> 0, r |-> TRUE]

IsUndecided(a) == a.d = 0 /\ a.r

IsNaN(a) == a.d = 0 /\ a.n = 0 /\ ~a.r

IsFinite(a) == a.d > 0

\* the float64 is exactly zero
IsZero(a) == a.d = 1 /\ a.n = 0 /\ a.tn = 0 /\ a.deg = 0 /\ ~a.r

\* the rational part and the coefficient of the tangent
Rat(a) == [n |-> a.n, d |-> a.d]

Coef(a) == [n |-> a.tn, d |-> a.td]

\* the tangent a value refers to
DegOf(a, b) == IF a.deg # 0 THEN a.deg ELSE b.deg

\* |math.Tan(math.Pi * k / 180.0)| * 10000 for k = 1..89, to the nearest
\* integer
TanTable ==
    << 175, 349, 524, 699, 875, 1051, 1228, 1405, 1584, 1763,
       1944, 2126, 2309, 2493, 2679, 2867, 3057, 3249, 3443, 3640,
       3839, 4040, 4245, 4452, 4663, 4877, 5095, 5317, 5543, 5774,
       6009, 6249, 6494, 6745, 7002, 7265, 7536, 7813, 8098, 8391,
       8693, 9004, 9325, 9657, 10000, 10355, 10724, 11106, 11504, 11918,
       12349, 12799, 13270, 13764, 14281, 14826, 15399, 16003, 16643, 17321,
       18040, 18807, 19626, 20503, 21445, 22460, 23559, 24751, 26051, 27475,
       29042, 30777, 32709, 34874, 37321, 40108, 43315, 47046, 51446, 56713,
       63138, 71154, 81443, 95144, 114301, 143007, 190811, 286363, 572900 >>

\* the sign of p + q * (c / 10000)
SignWith(p, q, c) == Sign(p.n * q.d * 10000 + q.n * c * p.d)

\* the sign of a finite value when its tangent is off the table value by
\* off/10000; at 90 degrees math.Tan returns a number above 10^15, which
\* outweighs every other number of the model; 0 when the value is not known
SignOff(a, off) ==
    IF a.tn = 0 THEN (IF a.deg # 0 THEN 0 ELSE Sign(a.n))
    ELSE IF TanK(a.deg) = 90 THEN Sign(a.tn)
    ELSE SignWith(Rat(a), Coef(a), TanTable[TanK(a.deg)] + off)

Sgn(a) == IF a.d = 0 THEN a.n ELSE SignOff(a, 0)

\* the sign of a finite value when the bounds of the table decide it, 0
\* when they do not
SgnDecided(a) ==
    IF SignOff(a, -1) = SignOff(a, 1) THEN SignOff(a, 0) ELSE 0

\* the value is positive for every tangent within the bounds of the table
Positive(a) == SignOff(a, -1) = 1 /\ SignOff(a, 1) = 1

\* the same value n/d + (tn/td) * t: equal up to floating-point rounding
NomEq(a, b) ==
    /\ a.n = b.n /\ a.d = b.d
    /\ a.tn = b.tn /\ a.td = b.td /\ a.deg = b.deg

RNeg(a) == [a EXCEPT !.n = -a.n, !.tn = -a.tn]

RAbs(a) == IF Sgn(a) < 0 THEN RNeg(a) ELSE a

RAdd(a, b) ==
    IF a.d = 0 \/ b.d = 0
    THEN IF IsNaN(a) \/ IsNaN(b) THEN NaN
         ELSE IF IsUndecided(a) \/ IsUndecided(b) THEN Undecided
         ELSE IF a.d = 0 /\ b.d = 0 THEN (IF a.n = b.n THEN a ELSE NaN)
         ELSE IF a.d = 0 THEN a ELSE b
    ELSE IF IsZero(b) THEN a
    ELSE IF IsZero(a) THEN b
    ELSE Lin(QAdd(Rat(a), Rat(b)), QAdd(Coef(a), Coef(b)), DegOf(a, b),
             a.r \/ b.r)

RSub(a, b) == RAdd(a, RNeg(b))

\* the product of a value with a value without tangent
Scale(a, k) ==
    Lin(QMul(Rat(a), Rat(k)), QMul(Coef(a), Rat(k)), a.deg, a.r \/ k.r)

\* the value without tangent that is nearest to a, to 1/10000 of the
\* tangent: for the product or quotient of two values with a tangent,
\* which lineatur.go never computes
Flat(a) ==
    IF a.tn = 0 THEN a
    ELSE IF TanK(a.deg) = 90 THEN Scale(R(a.tn), R(1000000))
    ELSE Lin(QAdd(Rat(a), QMul(Coef(a),
                 Norm(TanTable[TanK(a.deg)], 10000))), Norm(0, 1), 0, TRUE)

\* the sign of a float64 that is not NaN, 0 when the model does not know it
SgnKnown(a) == IF a.d = 0 THEN a.n ELSE SgnDecided(a)

RMul(a, b) ==
    IF a.d = 0 \/ b.d = 0
    THEN IF IsNaN(a) \/ IsNaN(b) \/ IsZero(a) \/ IsZero(b) THEN NaN
         ELSE IF SgnKnown(a) * SgnKnown(b) = 0 THEN Undecided
         ELSE Inf(SgnKnown(a) * SgnKnown(b))
    ELSE IF IsZero(a) \/ IsZero(b) THEN R(0)
    ELSE IF b.tn = 0 THEN Scale(a, b)
    ELSE IF a.tn = 0 THEN Scale(b, a)
    ELSE Scale(Flat(a), Flat(b))

\* x/0 is +Inf or -Inf by the sign of the float64 x and NaN for x = 0: a
\* numerator that is zero only up to rounding leaves the quotient to the
\* rounding.  The divisors of lineatur.go are exact numbers; for a divisor
\* that is not, the quotient is taken as undecided as well
RDiv(a, b) ==
    IF IsNaN(a) \/ IsNaN(b) THEN NaN
    ELSE IF IsUndecided(a) \/ IsUndecided(b) THEN Undecided
    ELSE IF a.d = 0
         THEN (IF b.d = 0 THEN NaN
               ELSE IF IsZero(b) THEN a
               ELSE IF SgnDecided(b) = 0 THEN Undecided
               ELSE Inf(a.n * SgnDecided(b)))
    ELSE IF b.d = 0 THEN R(0)
    ELSE IF IsZero(b)
         THEN (IF IsZero(a) THEN NaN
               ELSE IF SgnDecided(a) = 0 THEN Undecided
               ELSE Inf(SgnDecided(a)))
    ELSE IF b.tn = 0 /\ b.n = 0 THEN Undecided
    ELSE IF IsZero(a) THEN R(0)
    ELSE LET k == Flat(b)
         IN  Lin(QDiv(Rat(a), Rat(k)), QDiv(Coef(a), Rat(k)), a.deg,
                 a.r \/ k.r)

\* a < b and a <= b on the values; the code compares values without a
\* tangent only
RLess(a, b) ==
    IF IsNaN(a) \/ IsNaN(b) \/ IsUndecided(a) \/ IsUndecided(b) THEN FALSE
    ELSE IF a.d = 0 /\ b.d = 0 THEN a.n < b.n
    ELSE IF a.d = 0 THEN a.n < 0
    ELSE IF b.d = 0 THEN b.n > 0
    ELSE Positive(Lin(QAdd(Rat(b), QNeg(Rat(a))),
                      QAdd(Coef(b), QNeg(Coef(a))), DegOf(a, b), TRUE))

RLeq(a, b) ==
    /\ ~IsNaN(a) /\ ~IsNaN(b) /\ ~IsUndecided(a) /\ ~IsUndecided(b)
    /\ (NomEq(a, b) \/ RLess(a, b))

\* |math.Tan(math.Pi * deg / 180.0)| for a whole number of degrees: 0 at 0,
\* 0 up to rounding at the other multiples of 180, and otherwise the
\* float64 t of deg.  The sign of math.Tan is left out: at the odd multiples
\* of 90 it depends on the rounding of the argument, and the one use of the
\* tangent (line 98) is under math.Abs
AbsTan(deg) ==
    IF deg = 0 THEN R(0)
    ELSE IF deg % 180 = 0 THEN Lin(Norm(0, 1), Norm(0, 1), 0, TRUE)
    ELSE [n |-> 0, d |-> 1, tn |-> 1, td |-> 1, deg |-> deg, r |-> FALSE]

(***************************************************************************)
(* PaperSizes                                                              *)
(***************************************************************************)
PaperSizes ==
    [ps \in {"A5", "A4", "Invoice", "Legal", "Letter"} |->
        CASE ps = "A5"      -> [Width |-> R(148), Height |-> R(210)]
          [] ps = "A4"      -> [Width |-> R(210), Height |-> R(297)]
          [] ps = "Invoice" -> [Width |-> R(140), Height |-> R(216)]
          [] ps = "Legal"   -> [Width |-> R(203), Height |-> R(330)]
          [] ps = "Letter"  -> [Width |-> R(216), Height |-> R(279)]]

(***************************************************************************)
(* parseMultiUint64                                                        *)
(***************************************************************************)
Digits == <<"0", "1", "2", "3", "4", "5", "6", "7", "8", "9">>

IsDigit(c) == \E i \in 1..10 : Digits[i] = c

DigitVal(c) == (CHOOSE i \in 1..10 : Digits[i] = c) - 1

\* strings.Split(s, ":")
RECURSIVE Split(_)
Split(s) ==
    IF \A i \in 1..Len(s) : s[i] # ":"
    THEN <<s>>
    ELSE LET k == CHOOSE i \in 1..Len(s) :
                      s[i] = ":" /\ \A j \in 1..(i - 1) : s[j] # ":"
         IN  <<SubSeq(s, 1, k - 1)>> \o Split(SubSeq(s, k + 1, Len(s)))

\* strconv.ParseUint(m, 10, 64); the strings of the model are too short to
\* exceed 64 bits
RECURSIVE DecVal(_)
DecVal(m) ==
    IF m = <<>> THEN 0
    ELSE 10 * DecVal(SubSeq(m, 1, Len(m) - 1)) + DigitVal(m[Len(m)])

ParseUint(m) ==
    IF Len(m) = 0 \/ \E i \in 1..Len(m) : ~IsDigit(m[i])
    THEN [err |-> TRUE, u |-> 0]
    ELSE [err |-> FALSE, u |-> DecVal(m)]

RECURSIVE parseTokens(_)
parseTokens(strs) ==
    IF strs = <<>> THEN [err |-> FALSE, values |-> <<>>]
    ELSE LET r == ParseUint(Head(strs))
         IN  IF r.err THEN [err |-> TRUE, values |-> <<>>]
             ELSE LET rest == parseTokens(Tail(strs))
                  IN  IF rest.err THEN [err |-> TRUE, values |-> <<>>]
                      ELSE [err |-> FALSE,
                            values |-> <<R(r.u)>> \o rest.values]

parseMultiUint64(s) ==
    IF s = <<>> THEN [err |-> FALSE, values |-> <<>>]
    ELSE parseTokens(Split(s))

(***************************************************************************)
(* proportionsToLengths                                                    *)
(***************************************************************************)
RECURSIVE SumSeq(_)
SumSeq(s) == IF s = <<>> THEN R(0) ELSE RAdd(SumSeq(SubSeq(s, 1, Len(s) - 1)), s[Len(s)])

proportionsToLengths(props, lh) ==
    LET sumProp == SumSeq(props)
    IN  [i \in 1..Len(props) |-> RDiv(RMul(lh, props[i]), sumProp)]

(***************************************************************************)
(* drawLineatur                                                            *)
(***************************************************************************)
\* MoveTo(x1, y1); LineTo(x2, y2); DrawPath("D")
Seg(x1, y1, x2, y2) == [x1 |-> x1, y1 |-> y1, x2 |-> x2, y2 |-> y2]

RECURSIVE HLines(_, _, _, _)
HLines(gx, w, cur, dists) ==
    IF dists = <<>> THEN <<>>
    ELSE LET ny == RAdd(cur, Head(dists))
         IN  <<Seg(gx, ny, RAdd(gx, w), ny)>> \o HLines(gx, w, ny, Tail(dists))

RECURSIVE HLines_noacc(_, _, _, _)
HLines_noacc(gx, w, cur, dists) ==
    IF dists = <<>> THEN <<>>
    ELSE LET ny == RAdd(cur, Head(dists))
         IN  <<Seg(gx, ny, RAdd(gx, w), ny)>> \o HLines_noacc(gx, w, cur, Tail(dists))

RuledLines_noacc(gx, gy, lh, w, dists) ==
    IF Len(dists) = 0
    THEN <<Seg(gx, RAdd(gy, lh), RAdd(gx, w), RAdd(gy, lh))>>
    ELSE <<Seg(gx, gy, RAdd(gx, w), gy)>>
         \o HLines_noacc(gx, w, gy, dists)
         \o <<Seg(gx, gy, gx, RAdd(gy, lh)),
              Seg(RAdd(gx, w), gy, RAdd(gx, w), RAdd(gy, lh))>>

\* the switch on len(lineDists)
RuledLines(gx, gy, lh, w, dists) ==
    IF Len(dists) = 0
    THEN <<Seg(gx, RAdd(gy, lh), RAdd(gx, w), RAdd(gy, lh))>>
    ELSE <<Seg(gx, gy, RAdd(gx, w), gy)>>
         \o HLines(gx, w, gy, dists)
         \o <<Seg(gx, gy, gx, RAdd(gy, lh)),
              Seg(RAdd(gx, w), gy, RAdd(gx, w), RAdd(gy, lh))>>

\* b := math.Abs(lineHeight * math.Tan(math.Pi * (90.0 - slants[0]) / 180.0));
\* lineHeight is the float64 of a uint64, so |lineHeight * tan| is
\* lineHeight * |tan|, to the last bit
SlantRun(lh, sl) == RAbs(RMul(lh, AbsTan(90 - sl[1].n)))

\* the body of the slant loop for the counter value i
SlantLine(gx, gy, lh, b, n, a, i) ==
    LET sx == RAdd(gx, RMul(n, R(i)))
    IN  IF RLeq(a, R(90))
        THEN Seg(sx, RAdd(gy, lh), RAdd(sx, b), gy)
        ELSE Seg(RAdd(sx, b), RAdd(gy, lh), sx, gy)

\* for i := 0.0; i < slants[1]; i++
SlantCount(sl) == IF sl[2].n > 0 THEN sl[2].n ELSE 0

SlantLines_nob(gx, gy, lh, w, sl) ==
    IF Len(sl) = 2
    THEN LET b == SlantRun(lh, sl)
             n == RDiv(w, RSub(sl[2], R(1)))
         IN  [k \in 1..SlantCount(sl) |->
                 SlantLine(gx, gy, lh, b, n, sl[1], k - 1)]
    ELSE <<>>

SlantLines(gx, gy, lh, w, sl) ==
    IF Len(sl) = 2
    THEN LET b == SlantRun(lh, sl)
             n == RDiv(RSub(w, b), RSub(sl[2], R(1)))
         IN  [k \in 1..SlantCount(sl) |->
                 SlantLine(gx, gy, lh, b, n, sl[1], k - 1)]
    ELSE <<>>

drawLineatur(gx, gy, lh, w, dists, sl) ==
    RuledLines(gx, gy, lh, w, dists) \o SlantLines(gx, gy, lh, w, sl)

(***************************************************************************)
(* drawAllLineatur: the loop condition                                     *)
(***************************************************************************)
LoopCond_le(cy, lh, ph, mb) == RLeq(RAdd(cy, lh), RSub(ph, mb))

LoopCond(cy, lh, ph, mb) == RLess(RAdd(cy, lh), RSub(ph, mb))

(***************************************************************************)
(* The command lines of the model                                          *)
(***************************************************************************)
PaperArgs == {"A5", "A4", "Invoice", "Legal", "Letter", "B5"}

ProportionArgs ==
    { <<>>,
      <<"5">>,
      <<"2", ":", "3", ":", "2">>,
      <<"0", ":", "1">>,
      <<"0", ":", "0">>,
      <<"1", ":", "a">> }

SlantArgs ==
    { <<>>,
      <<"6", "0", ":", "1", "0">>,
      <<"9", "0", ":", "3">>,
      <<"1", "3", "5", ":", "2">>,
      <<"4", "5", ":", "1">>,
      <<"6", "0">>,
      <<"4", "x", ":", "2">> }

MarginArgs ==
    { <<"5", ":", "1", "5", ":", "1", "5", ":", "5">>,
      <<>>,
      <<"5", ":", "1", "5", ":", "1", "2", ":", "5">>,
      <<"5", ":", "7", "0", ":", "1", "5", ":", "7", "0">>,
      <<"5", ":", "1", "5">>,
      <<"5", ":", ":", "1", "5", ":", "5">> }

HeightArgs == {0, 10}

SpacingArgs == {0, 5}

(***************************************************************************)
(* main                                                                    *)
(***************************************************************************)
Init ==
    /\ flags \in [ps : PaperArgs, p : ProportionArgs, s : SlantArgs,
                  m : MarginArgs, lh : HeightArgs, ls : SpacingArgs]
    /\ pc = "checkPaper"
    /\ exit = -1
    /\ proportions = <<>>
    /\ slants = <<>>
    /\ margins = <<>>
    /\ doc = "none"
    /\ lineDists = <<>>
    /\ width = R(0)
    /\ x = R(0)
    /\ y = R(0)
    /\ group = [x |-> R(0), y |-> R(0), segs |-> <<>>]
    /\ origins = <<>>

\* os.Exit(code), or the exit of the runtime after a panic (code 2)
Halt(code) == pc' = "done" /\ exit' = code

CheckPaperSize ==
    /\ pc = "checkPaper"
    /\ IF flags.ps \notin DOMAIN PaperSizes
       THEN Halt(1)
       ELSE pc' = "parseP" /\ exit' = exit
    /\ UNCHANGED <<flags, proportions, slants, margins, doc, lineDists,
                   width, x, y, group, origins>>

ParseProportions ==
    /\ pc = "parseP"
    /\ LET r == parseMultiUint64(flags.p)
       IN  IF r.err
           THEN Halt(1) /\ proportions' = proportions
           ELSE pc' = "parseS" /\ exit' = exit /\ proportions' = r.values
    /\ UNCHANGED <<flags, slants, margins, doc, lineDists, width, x, y,
                   group, origins>>

ParseSlants ==
    /\ pc = "parseS"
    /\ LET r == parseMultiUint64(flags.s)
       IN  IF r.err
           THEN Halt(1) /\ slants' = slants
           ELSE IF Len(r.values) # 0 /\ Len(r.values) # 2
           THEN Halt(1) /\ slants' = r.values
           ELSE pc' = "parseM" /\ exit' = exit /\ slants' = r.values
    /\ UNCHANGED <<flags, proportions, margins, doc, lineDists, width, x, y,
                   group, origins>>

ParseMargins_nocount ==
    /\ pc = "parseM"
    /\ LET r == parseMultiUint64(flags.m)
       IN  IF r.err
           THEN Halt(1) /\ margins' = margins
           ELSE pc' = "newDoc" /\ exit' = exit /\ margins' = r.values
    /\ UNCHANGED <<flags, proportions, slants, doc, lineDists, width, x, y,
                   group, origins>>

ParseMargins ==
    /\ pc = "parseM"
    /\ LET r == parseMultiUint64(flags.m)
       IN  IF r.err
           THEN Halt(1) /\ margins' = margins
           ELSE IF Len(r.values) # 0 /\ Len(r.values) # 4
           THEN Halt(1) /\ margins' = r.values
           ELSE pc' = "newDoc" /\ exit' = exit /\ margins' = r.values
    /\ UNCHANGED <<flags, proportions, slants, doc, lineDists, width, x, y,
                   group, origins>>

\* gofpdf.New, SetMargins, SetAutoPageBreak, AddPage
NewDocument ==
    /\ pc = "newDoc"
    /\ doc' = "open"
    /\ pc' = "resolve"
    /\ UNCHANGED <<flags, exit, proportions, slants, margins, lineDists,
                   width, x, y, group, origins>>

\* drawAllLineatur: lineDists := proportionsToLengths(proportions, lineHeight)
Resolve ==
    /\ pc = "resolve"
    /\ lineDists' = proportionsToLengths(proportions, R(flags.lh))
    /\ pc' = "geometry"
    /\ UNCHANGED <<flags, exit, proportions, slants, margins, doc,
                   width, x, y, group, origins>>

\* drawAllLineatur: width, x and y from the margins; indexing a margins
\* slice that is too short panics
Geometry ==
    /\ pc = "geometry"
    /\ IF Len(margins) < 4
       THEN Halt(2) /\ UNCHANGED <<width, x, y>>
       ELSE /\ width' = RSub(RSub(PaperSizes[flags.ps].Width, margins[2]),
                             margins[4])
            /\ x' = margins[4]
            /\ y' = margins[1]
            /\ pc' = "loop"
            /\ exit' = exit
    /\ UNCHANGED <<flags, proportions, slants, margins, doc, lineDists,
                   group, origins>>

\* drawAllLineatur: the loop condition holds and the body is entered
DrawAllEnter ==
    /\ pc = "loop"
    /\ LoopCond(y, R(flags.lh), PaperSizes[flags.ps].Height, margins[3])
    /\ pc' = "draw"
    /\ UNCHANGED <<flags, exit, proportions, slants, margins, doc,
                   lineDists, width, x, y, group, origins>>

Record(h, cy) == IF Len(h) < MaxGroups THEN Append(h, cy) ELSE h

DrawAllStep_nospacing ==
    /\ pc = "draw"
    /\ group' = [x |-> x, y |-> y,
                 segs |-> drawLineatur(x, y, R(flags.lh), width, lineDists,
                                       slants)]
    /\ origins' = Record(origins, y)
    /\ y' = RAdd(y, R(flags.lh))
    /\ pc' = "loop"
    /\ UNCHANGED <<flags, exit, proportions, slants, margins, doc,
                   lineDists, width, x>>

\* drawAllLineatur: the body of the loop
DrawAllStep ==
    /\ pc = "draw"
    /\ group' = [x |-> x, y |-> y,
                 segs |-> drawLineatur(x, y, R(flags.lh), width, lineDists,
                                       slants)]
    /\ origins' = Record(origins, y)
    /\ y' = RAdd(y, RAdd(R(flags.lh), R(flags.ls)))
    /\ pc' = "loop"
    /\ UNCHANGED <<flags, exit, proportions, slants, margins, doc,
                   lineDists, width, x>>

\* drawAllLineatur: the loop condition fails and the function returns
DrawAllExit ==
    /\ pc = "loop"
    /\ ~LoopCond(y, R(flags.lh), PaperSizes[flags.ps].Height, margins[3])
    /\ pc' = "output"
    /\ UNCHANGED <<flags, exit, proportions, slants, margins, doc,
                   lineDists, width, x, y, group, origins>>

\* pdf.OutputFileAndClose(filename) and the return of main
Output ==
    /\ pc = "output"
    /\ doc' = "written"
    /\ Halt(0)
    /\ UNCHANGED <<flags, proportions, slants, margins, lineDists,
                   width, x, y, group, origins>>

Next ==
    \/ CheckPaperSize
    \/ ParseProportions
    \/ ParseSlants
    \/ ParseMargins
    \/ NewDocument
    \/ Resolve
    \/ Geometry
    \/ DrawAllEnter
    \/ DrawAllStep
    \/ DrawAllExit
    \/ Output

Spec == Init /\ [][Next]_vars

\* the program is a single thread that always takes its next step; the
\* runs with line height 0 on A5 and on an unknown paper size
TilingInit ==
    /\ Init
    /\ flags.ps \in {"A5", "B5"}
    /\ flags.p \in {<<>>, <<"1", ":", "a">>}
    /\ flags.s \in {<<>>, <<"6", "0">>}
    /\ Len(flags.m) \in {0, 4, 9}
    /\ flags.lh = 0

FairSpec == TilingInit /\ [][Next]_vars /\ WF_vars(Next)

(***************************************************************************)
(* Vocabulary of the properties                                            *)
(***************************************************************************)
\* proportionsToLengths has returned
Resolved ==
    \/ pc \in {"geometry", "loop", "draw", "output"}
    \/ pc = "done" /\ exit \in {0, 2}

\* drawLineatur has been called at least once; group is its last call
GroupDrawn == group.segs # <<>>

\* the lower bound of the printable area: pageHeight - margins.bottom
BottomBound == RSub(PaperSizes[flags.ps].Height, margins[3])

\* x + width of the last group
RightEdge == RAdd(group.x, width)

\* number of segments drawLineatur emits before the slant guides
RuledCount == IF Len(lineDists) = 0 THEN 1 ELSE Len(lineDists) + 3

\* the slant guides of the last group
Guides == SubSeq(group.segs, RuledCount + 1, Len(group.segs))

\* the position xi of a guide: its lower end for an angle <= 90, its upper
\* end otherwise
GuideX(g) == IF RLeq(slants[1], R(90)) THEN g.x1 ELSE g.x2

\* the opposite end of a guide, xi + b
GuideEnd(g) == IF RLeq(slants[1], R(90)) THEN g.x2 ELSE g.x1

\* v lies in [x, x + width] up to floating-point rounding
WithinGroup(v) == RLeq(group.x, v) /\ RLeq(v, RightEdge)

\* a number list as the command line documents it: empty, or unsigned
\* decimal numbers separated by single colons
WellFormedList(s) ==
    \/ s = <<>>
    \/ /\ \A i \in 1..Len(s) : IsDigit(s[i]) \/ s[i] = ":"
       /\ s[1] # ":"
       /\ s[Len(s)] # ":"
       /\ \A i \in 1..(Len(s) - 1) : ~(s[i] = ":" /\ s[i + 1] = ":")

Entries(s) ==
    IF s = <<>> THEN 0 ELSE 1 + Cardinality({i \in 1..Len(s) : s[i] = ":"})

ConfigError ==
    \/ flags.ps \notin {"A5", "A4", "Invoice", "Legal", "Letter"}
    \/ ~WellFormedList(flags.p)
    \/ ~WellFormedList(flags.s)
    \/ ~WellFormedList(flags.m)
    \/ Entries(flags.s) \notin {0, 2}
    \/ Entries(flags.m) \notin {0, 4}

DefaultMargins == <<"5", ":", "1", "5", ":", "1", "5", ":", "5">>

(***************************************************************************)
(* Properties                                                              *)
(***************************************************************************)
\* C1: every line group the tiler draws starts at a y with y + lineHeight
\* strictly below pageHeight - margins.bottom; a group whose bottom edge
\* would land exactly on the bound is not drawn.
C1_GroupsAboveBottomBound ==
    /\ \A i \in 1..Len(origins) :
           RLess(RAdd(origins[i], R(flags.lh)), BottomBound)
    /\ GroupDrawn => RLess(RAdd(group.y, R(flags.lh)), BottomBound)

\* the loop has ended at a y whose group would end exactly on the bound
C1_Witness ==
    /\ pc = "output"
    /\ Len(origins) > 0
    /\ RAdd(y, R(flags.lh)) = BottomBound

\* C2: for every accepted configuration the tiling loop of drawAllLineatur
\* terminates after finitely many groups.
C2_TilingLoopTerminates == (pc = "loop") ~> (pc = "output")

\* the distances are the shares lineHeight * p / sum and add up to
\* lineHeight, up to floating-point rounding
DistancesAsSpecified ==
    LET sum == SumSeq(proportions)
    IN  /\ Len(lineDists) = Len(proportions)
        /\ \A i \in 1..Len(lineDists) :
               /\ IsFinite(lineDists[i])
               /\ lineDists[i].n * sum.n
                      = flags.lh * proportions[i].n * lineDists[i].d
        /\ NomEq(SumSeq(lineDists), R(flags.lh))

\* C3: for any non-empty proportions and any lineHeight > 0 the resolver
\* returns distances[i] = H * proportions[i] / sum, same length and order,
\* summing to H (compared up to floating-point rounding).
C3_AnyProportions ==
    (Resolved /\ Len(proportions) > 0 /\ flags.lh > 0)
        => DistancesAsSpecified

\* C4: given non-empty proportions whose sum is zero the resolver fails and
\* returns no distances; it never yields distances divided by a zero sum.
C4_ZeroSumRejected ==
    (Resolved /\ Len(proportions) > 0 /\ SumSeq(proportions) = R(0))
        => (lineDists = <<>> /\ pc = "done" /\ exit > 0)

\* C5: once the arguments pass validation the geometry core never raises a
\* run-time error, also for a margins argument with 0 entries.
C5_CoreNeverPanics == exit # 2

\* C6: every configuration error ends the run with a non-zero exit status
\* before the document is created, any segment is drawn or the file is
\* written; drawing begins only after all checks have passed.
C6_ErrorsBeforeDrawing ==
    /\ ConfigError =>
           /\ pc \in {"checkPaper", "parseP", "parseS", "parseM", "done"}
           /\ pc = "done" => exit = 1
           /\ doc = "none"
           /\ group.segs = <<>>
           /\ origins = <<>>
    /\ exit = 1 => doc = "none" /\ group.segs = <<>>

\* the last check of main, the number of margins, has rejected the run
C6_Witness ==
    /\ pc = "done"
    /\ exit = 1
    /\ flags.ps = "A4"
    /\ WellFormedList(flags.p)
    /\ Entries(flags.s) = 2
    /\ WellFormedList(flags.s)
    /\ WellFormedList(flags.m)
    /\ Entries(flags.m) = 2

DefaultPage ==
    /\ flags.ps = "A4"
    /\ flags.m = DefaultMargins
    /\ flags.lh = 10
    /\ flags.ls = 5

\* C7: A4 with margins 5:15:15:5, lineHeight 10 and lineSpacing 5 is tiled
\* with exactly floor((277-10)/15)+1 groups at y = 5, 20, 35, ..., none of
\* them straddling the bottom margin.
C7_DefaultPageTiling ==
    (DefaultPage /\ (pc = "output" \/ (pc = "done" /\ exit = 0)))
        => /\ Len(origins) = ((277 - 10) \div 15) + 1
           /\ \A i \in 1..Len(origins) :
                  /\ origins[i] = R(5 + 15 * (i - 1))
                  /\ RLess(RAdd(origins[i], R(10)), R(297 - 15))

C7_Witness ==
    /\ DefaultPage
    /\ pc = "done"
    /\ exit = 0
    /\ Len(origins) = 18
    /\ group.y = R(260)

\* the running sum y + d1 + ... + dk
RECURSIVE Cursor(_)
Cursor(k) == IF k = 0 THEN group.y ELSE RAdd(Cursor(k - 1), lineDists[k])

\* C8: for non-empty distances one call of drawLineatur emits, in order, a
\* horizontal segment at y, one at every running sum y + d1 + ... + dk, the
\* left border and the right border: len(distances) + 3 segments before any
\* slant guide.
C8_RuledSegmentsInOrder ==
    (GroupDrawn /\ Len(lineDists) > 0) =>
        LET k == Len(lineDists)
            s == group.segs
            bottom == RAdd(group.y, R(flags.lh))
        IN  /\ Len(s) = k + 3 + (IF Len(slants) = 2 THEN slants[2].n ELSE 0)
            /\ s[1] = Seg(group.x, group.y, RightEdge, group.y)
            /\ \A i \in 1..k :
                   s[1 + i] = Seg(group.x, Cursor(i), RightEdge, Cursor(i))
            /\ s[k + 2] = Seg(group.x, group.y, group.x, bottom)
            /\ s[k + 3] = Seg(RightEdge, group.y, RightEdge, bottom)

C8_Witness ==
    /\ GroupDrawn
    /\ Len(lineDists) = 3
    /\ flags.lh > 0
    /\ IsFinite(lineDists[1])
    /\ Len(slants) = 2
    /\ Len(group.segs) > 6

\* C9: a slant with count n >= 1 yields exactly n guides at xi = x + step*i
\* with step = (width - b)/(n - 1) for n > 1, and for n = 1 a single guide
\* placed at x.
C9_GuidePositions ==
    (GroupDrawn /\ Len(slants) = 2 /\ slants[2].n >= 1) =>
        LET n == slants[2].n
            step == RDiv(RSub(width, SlantRun(R(flags.lh), slants)), R(n - 1))
        IN  /\ Len(Guides) = n
            /\ IF n = 1
               THEN GuideX(Guides[1]) = group.x
               ELSE \A i \in 0..(n - 1) :
                        GuideX(Guides[i + 1])
                            = RAdd(group.x, RMul(step, R(i)))

\* every guide of the last group lies within [x, x + width] up to
\* floating-point rounding, the first one starting exactly at x and the last
\* one ending at x + width up to rounding
GuidesWithinGroup ==
    /\ \A i \in 1..Len(Guides) :
           WithinGroup(Guides[i].x1) /\ WithinGroup(Guides[i].x2)
    /\ GuideX(Guides[1]) = group.x
    /\ NomEq(GuideEnd(Guides[Len(Guides)]), RightEdge)

\* C10 as stated: for every accepted slant with count n >= 2 every guide
\* lies within the horizontal extent of its group, whatever the run b is.
C10_GuidesWithinGroup ==
    (GroupDrawn /\ Len(slants) = 2 /\ slants[2].n >= 2)
        => GuidesWithinGroup

\* C10 amended: the same, up to floating-point rounding, whenever the run b
\* does not exceed the width.
C10_GuidesWithinGroupIfRunFits ==
    (GroupDrawn /\ Len(slants) = 2 /\ slants[2].n >= 2
        /\ RLeq(SlantRun(R(flags.lh), slants), width))
        => GuidesWithinGroup

C10_Witness ==
    /\ GroupDrawn
    /\ Len(slants) = 2
    /\ slants[2].n >= 3
    /\ RLess(R(0), SlantRun(R(flags.lh), slants))
    /\ RLess(SlantRun(R(flags.lh), slants), width)
    /\ Len(Guides) = slants[2].n
    /\ GuideEnd(Guides[Len(Guides)]).r

====
